---- MODULE Spec2Model ----
(***************************************************************************)
(* Model of org_analysis/hercules_statistics.py: the per-repository        *)
(* statistics step (repository_statistics), the process pool that runs it  *)
(* (hercules_handler) and the hierarchical merge (merge_statistics).       *)
(***************************************************************************)
EXTENDS Integers, Sequences, FiniteSets, TLC

VARIABLES
    arguments,      \* hercules_handler: list of kwargs dicts, one per CSV row
    n_samples,      \* hercules_handler / merge_statistics: batch size
    fs,             \* the file system: path -> content of every existing file
    next_task,      \* Pool: index of the next task not yet handed to a worker
    worker,         \* Pool: state of every worker process
    outqueue,       \* Pool: results sent back by the workers, not yet iterated
    results,        \* hercules_handler: the list "results"
    hpc,            \* position of the caller (hercules_handler or a direct call)
    mrg,            \* merge_statistics: its local variables
    tmp_dir,        \* merge_statistics: state of the TemporaryDirectory
    combine_calls   \* log of every "hercules combine" invocation

vars == <<arguments, n_samples, fs, next_task, worker, outqueue, results, hpc,
          mrg, tmp_dir, combine_calls>>

----------------------------------------------------------------------------
(* Bounds of the model *)

MaxItems == 2

NCores == 2

MaxMerges == 5

MaxFiles == 7

----------------------------------------------------------------------------
(* Inputs *)

\* repo_url values of the CSV rows, each as the list repo_url.split("/") gives
Urls == << <<"https:", "", "github.com", "org", "a">>,
           <<"https:", "", "github.com", "org", "b">>,
           <<"https:", "", "gitlab.com", "org", "a">> >>

\* repo_loc of the i-th CSV row
RepoLoc(i) == <<"/repos/1", "/repos/2", "/repos/3", "/repos/4", "/repos/5", "/repos/6",
                "/repos/7", "/repos/8", "/repos/9">>[i]

\* repo_url of the i-th artifact handed to merge_statistics directly
MergeUrl(i) == <<"https:", "", "github.com", "org",
                 <<"r1", "r2", "r3", "r4", "r5", "r6", "r7", "r8", "r9">>[i]>>

\* values of size_limit (<= 0: no limit)
Limits == {-1, 0, 2, 3}

\* values of output_dir
OutputDirs == {"/output", "output"}

\* values of force
Forces == BOOLEAN

\* values dir_size can return
Sizes == {2, 3}

\* header start times (unix seconds) an analysed repository can have
Starts == {0, 86399, 86400}

\* values of size_limit given to hercules_handler
PoolLimits == {2}

\* values of n_samples given to hercules_handler
BatchSizes == {-1, 1, 2}

\* values of n_samples given to merge_statistics directly
MergeBatchSizes == {-1, 0, 1, 2, 3}

HERCULES_EXEC == "hercules"

AGGREGATED_STATISTICS_NAME == "aggregated_statistics.pb"

----------------------------------------------------------------------------
(* Paths and files *)

Min(a, b) == IF a <= b THEN a ELSE b

\* Python's None, as a path value
None == [base |-> "None", sub |-> <<>>, name |-> "", n |-> 0]

\* repo_url.split("/")[-2:]
Last2(url) == IF Len(url) <= 2 THEN url ELSE SubSeq(url, Len(url) - 1, Len(url))

\* os.path.abspath(p) = p
IsAbs(p) == p = "/output"

\* os.path.join(output_dir, *repo_url.split("/")[-2:], "statistics.pb")
StatLoc(output_dir, url) ==
    [base |-> output_dir, sub |-> Last2(url), name |-> "statistics.pb", n |-> 0]

\* temporary file names that come round again after three merges
TmpLocModulo(k) == [base |-> "tmp", sub |-> <<>>, name |-> ".pb", n |-> k % 3]

\* os.path.join(tmp_dir, f"{file_cnter}.pb")
TmpLoc(k) == [base |-> "tmp", sub |-> <<>>, name |-> ".pb", n |-> k]

\* os.path.join(output, aggregated_statistics_name)
ResultFilepath == [base |-> "/output", sub |-> <<>>, name |-> AGGREGATED_STATISTICS_NAME, n |-> 0]

\* os.path.isfile
IsFile(f, p) == p \in DOMAIN f

\* opening without truncation: an existing file keeps its content
OpenKeep(f, p) == [q \in (DOMAIN f) \cup {p} |-> IF q \in DOMAIN f THEN f[q] ELSE <<>>]

\* open(p, "wb"): creates the file or truncates it
OpenWb(f, p) == [q \in (DOMAIN f) \cup {p} |-> IF q = p THEN <<>> ELSE f[q]]

\* the child process writes one piece of output to its stdout
WriteOut(f, p, chunk) == IF p \in DOMAIN f THEN [f EXCEPT ![p] = Append(@, chunk)] ELSE f

\* os.path.getsize, in pieces of output
GetSize(f, p) == Len(f[p])

\* a file system without files
EmptyFs == [q \in {} |-> <<>>]

\* leaving the temporary directory as it is
KeepTmp(f) == f

\* shutil.rmtree of the temporary directory
RemoveTmp(f) == [q \in {p \in DOMAIN f : p.base # "tmp"} |-> f[q]]

----------------------------------------------------------------------------
(* datetime.utcfromtimestamp(start).strftime("%Y-%m-%d") *)

SecondsPerDay == 86400

\* civil date <<year, month, day>> of a unix time, proleptic Gregorian calendar
UtcDate(start) ==
    LET z   == (start \div SecondsPerDay) + 719468
        era == z \div 146097
        doe == z - era * 146097
        yoe == (doe - (doe \div 1460) + (doe \div 36524) - (doe \div 146096)) \div 365
        doy == doe - (365 * yoe + (yoe \div 4) - (yoe \div 100))
        mp  == (5 * doy + 2) \div 153
        d   == doy - ((153 * mp + 2) \div 5) + 1
        m   == IF mp < 10 THEN mp + 3 ELSE mp - 9
        y   == yoe + era * 400 + (IF m <= 2 THEN 1 ELSE 0)
    IN  <<y, m, d>>

\* labours.ProtobufReader().read(stat_loc); get_header(): the start time, or
\* "error" when the file does not hold one complete output
ReadHeader(content) ==
    IF Len(content) = 1 /\ content[1].kind = "full"
    THEN [ok |-> TRUE, start |-> content[1].start]
    ELSE [ok |-> FALSE, start |-> 0]

\* the test comparing the start time itself with zero
StartIsZero(start) == start = 0

\* line 153: the date of the start time is 1970-01-01
starts_with_zero_timestamp(start) == UtcDate(start) = <<1970, 1, 1>>

----------------------------------------------------------------------------
(* repository_statistics, run by one worker process *)

Workers == 1..NCores

NoKw == [repo_loc |-> "", repo_url |-> <<>>, output_dir |-> "", force |-> FALSE,
         hercules_exec |-> "", size_limit |-> 0]

\* the value a call has not returned yet
NoRet == [exc |-> "none", repo_size |-> 0, err |-> "", repository |-> "", path |-> None]

IdleWorker == [pc |-> "idle", kw |-> NoKw, repo_size |-> 0, cmd |-> <<>>,
               runs |-> <<>>, ret |-> NoRet]

\* the return value with the error text left out
ReturnedNoErr(w, err, path) ==
    [exc |-> "", repo_size |-> worker[w].repo_size, err |-> "",
     repository |-> worker[w].kw.repo_loc, path |-> path]

\* (ReportStat(repo_size, duration, err, repository), path)
Returned(w, err, path) ==
    [exc |-> "", repo_size |-> worker[w].repo_size, err |-> err,
     repository |-> worker[w].kw.repo_loc, path |-> path]

\* an exception leaving repository_statistics
Raised(w, exc) ==
    [exc |-> exc, repo_size |-> 0, err |-> "", repository |-> worker[w].kw.repo_loc,
     path |-> None]

\* stat_loc of the call worker w runs
stat_loc(w) == StatLoc(worker[w].kw.output_dir, worker[w].kw.repo_url)

\* the argument list built at lines 95-109
PrimaryCmd(kw) ==
    <<kw.hercules_exec, "--pb", "--burndown", "--burndown-people", "--devs", "--couples",
      "--hibernation-distance=1000", "--skip-blacklist", kw.repo_loc>>

\* cmd.append("--first-parent")
FallbackCmd(cmd) == Append(cmd, "--first-parent")

\* what one run of the analysis command can do: exit 0 with a complete output,
\* exit non-zero having written nothing or a part, or not start at all
AnalysisOutcomes ==
    {[res |-> "ok", start |-> s] : s \in Starts}
        \cup {[res |-> r, start |-> 0] : r \in {"failed", "failed_partial", "oserror"}}

\* the file after subprocess.run(cmd, stdout=f) ended with outcome o
AfterRun(f, p, cmd, o) ==
    CASE o.res = "ok" -> WriteOut(f, p, [src |-> cmd, kind |-> "full", start |-> o.start])
      [] o.res = "failed_partial" ->
            WriteOut(f, p, [src |-> cmd, kind |-> "partial", start |-> 0])
      [] OTHER -> f

\* the reuse test with the sense of force inverted
ReuseWhenForced(f, p, force) == IsFile(f, p) /\ force

\* the reuse test of line 78
Reuse(f, p, force) == IsFile(f, p) /\ ~force

\* the admission test with the comparison turned round
TooBigReversed(repo_size, size_limit) == repo_size < size_limit /\ size_limit > 0

\* the admission test rejecting a size equal to the limit as well
TooBigOrEqual(repo_size, size_limit) == repo_size >= size_limit /\ size_limit > 0

\* the admission test of line 85, negated
TooBig(repo_size, size_limit) == repo_size > size_limit /\ size_limit > 0

\* lines 69-109: argument checks, dir_size, reuse, admission, makedirs, cmd
Check(w) ==
    /\ worker[w].pc = "check"
    /\ \E loc_ok \in BOOLEAN, sz \in Sizes :
         LET kw == worker[w].kw
             me == [worker[w] EXCEPT !.repo_size = sz]
             ret(err, path) == [exc |-> "", repo_size |-> sz, err |-> err,
                                repository |-> kw.repo_loc, path |-> path]
         IN  worker' = [worker EXCEPT ![w] =
                 IF ~loc_ok \/ ~IsAbs(kw.output_dir)
                 THEN [worker[w] EXCEPT !.pc = "ret", !.ret = Raised(w, "ValueError")]
                 ELSE IF Reuse(fs, stat_loc(w), kw.force)
                 THEN [me EXCEPT !.pc = "ret", !.ret = ret("", stat_loc(w))]
                 ELSE IF TooBig(sz, kw.size_limit)
                 THEN [me EXCEPT !.pc = "ret", !.ret = ret("too big", None)]
                 ELSE [me EXCEPT !.pc = "open1", !.cmd = PrimaryCmd(kw)]]
    /\ UNCHANGED <<arguments, n_samples, fs, next_task, outqueue, results, hpc, mrg,
                   tmp_dir, combine_calls>>

\* line 111 (attempt = 1) and line 121 (attempt = 2): open(stat_loc, "wb")
OpenStat(w, attempt) ==
    /\ worker[w].pc = (IF attempt = 1 THEN "open1" ELSE "open2")
    /\ \E opened \in BOOLEAN :
         IF opened
         THEN /\ fs' = OpenWb(fs, stat_loc(w))
              /\ worker' = [worker EXCEPT ![w].pc = IF attempt = 1 THEN "run1" ELSE "run2"]
         ELSE /\ fs' = fs
              /\ worker' = [worker EXCEPT ![w].pc = "ret", ![w].ret = Raised(w, "OSError")]
    /\ UNCHANGED <<arguments, n_samples, next_task, outqueue, results, hpc, mrg,
                   tmp_dir, combine_calls>>

\* lines 113-119: the primary run; CalledProcessError leads to the fallback
RunPrimary(w) ==
    /\ worker[w].pc = "run1"
    /\ \E o \in AnalysisOutcomes :
         LET me == [worker[w] EXCEPT !.runs = Append(@, [cmd |-> worker[w].cmd, res |-> o.res])]
         IN  /\ fs' = AfterRun(fs, stat_loc(w), worker[w].cmd, o)
             /\ worker' = [worker EXCEPT ![w] =
                    CASE o.res = "ok" ->
                            [me EXCEPT !.pc = "ret", !.ret = Returned(w, "", stat_loc(w))]
                      [] o.res = "oserror" ->
                            [me EXCEPT !.pc = "ret", !.ret = Raised(w, "OSError")]
                      [] OTHER ->
                            [me EXCEPT !.pc = "open2", !.cmd = FallbackCmd(worker[w].cmd)]]
    /\ UNCHANGED <<arguments, n_samples, next_task, outqueue, results, hpc, mrg,
                   tmp_dir, combine_calls>>

\* lines 123-133: the fallback run
RunFallback(w) ==
    /\ worker[w].pc = "run2"
    /\ \E o \in AnalysisOutcomes :
         LET me == [worker[w] EXCEPT !.runs = Append(@, [cmd |-> worker[w].cmd, res |-> o.res])]
         IN  /\ fs' = AfterRun(fs, stat_loc(w), worker[w].cmd, o)
             /\ worker' = [worker EXCEPT ![w] =
                    CASE o.res = "ok" ->
                            [me EXCEPT !.pc = "ret", !.ret = Returned(w, "", stat_loc(w))]
                      [] o.res = "oserror" ->
                            [me EXCEPT !.pc = "ret", !.ret = Raised(w, "OSError")]
                      [] OTHER ->
                            [me EXCEPT !.pc = "ret", !.ret = Returned(w, "failed", None)]]
    /\ UNCHANGED <<arguments, n_samples, next_task, outqueue, results, hpc, mrg,
                   tmp_dir, combine_calls>>

----------------------------------------------------------------------------
(* hercules_handler: the process pool *)

\* the Pool hands the next task to an idle worker process (the worker
\* processes are alike: the first idle one stands for any of them)
Dispatch(w) ==
    /\ hpc = "pool"
    /\ worker[w].pc = "idle"
    /\ \A v \in Workers : v < w => worker[v].pc # "idle"
    /\ next_task <= Len(arguments)
    /\ worker' = [worker EXCEPT ![w] = [IdleWorker EXCEPT !.pc = "check",
                                                          !.kw = arguments[next_task]]]
    /\ next_task' = next_task + 1
    /\ UNCHANGED <<arguments, n_samples, fs, outqueue, results, hpc, mrg, tmp_dir,
                   combine_calls>>

\* the worker sends the return value, or the exception, back to the parent
Deliver(w) ==
    /\ hpc = "pool"
    /\ worker[w].pc = "ret"
    /\ outqueue' = Append(outqueue, worker[w].ret)
    /\ worker' = [worker EXCEPT ![w] = IdleWorker]
    /\ UNCHANGED <<arguments, n_samples, fs, next_task, results, hpc, mrg, tmp_dir,
                   combine_calls>>

\* Pool.terminate(), which leaving the "with Pool" block calls
Terminated == [w \in Workers |-> [IdleWorker EXCEPT !.pc = "killed"]]

\* lines 281-284: one turn of the loop over imap_unordered; the iterator raises
\* in the parent the exception a task raised
Collect ==
    /\ hpc = "pool"
    /\ outqueue # <<>>
    /\ outqueue' = Tail(outqueue)
    /\ IF Head(outqueue).exc # ""
       THEN /\ hpc' = "raised_task"
            /\ worker' = Terminated
            /\ results' = results
       ELSE /\ hpc' = hpc
            /\ worker' = worker
            /\ results' = Append(results, Head(outqueue))
    /\ UNCHANGED <<arguments, n_samples, fs, next_task, mrg, tmp_dir, combine_calls>>

\* lines 279-288: the iterator is exhausted, the pool is left, merging starts
PoolExit ==
    /\ hpc = "pool"
    /\ Len(results) = Len(arguments)
    /\ hpc' = "merge"
    /\ worker' = Terminated
    /\ UNCHANGED <<arguments, n_samples, fs, next_task, outqueue, results, mrg, tmp_dir,
                   combine_calls>>

----------------------------------------------------------------------------
(* repository_statistics called directly, again and again, for one repository *)

CallDirect ==
    /\ hpc = "direct"
    /\ worker[1].pc = "idle"
    /\ \E force \in Forces, limit \in Limits, out \in OutputDirs :
         worker' = [worker EXCEPT ![1] =
             [IdleWorker EXCEPT !.pc = "check",
                                !.kw = [arguments[1] EXCEPT !.force = force,
                                                            !.size_limit = limit,
                                                            !.output_dir = out]]]
    /\ UNCHANGED <<arguments, n_samples, fs, next_task, outqueue, results, hpc, mrg,
                   tmp_dir, combine_calls>>

ReturnDirect ==
    /\ hpc = "direct"
    /\ worker[1].pc = "ret"
    /\ results' = <<worker[1].ret>>
    /\ worker' = [worker EXCEPT ![1] = IdleWorker]
    /\ UNCHANGED <<arguments, n_samples, fs, next_task, outqueue, hpc, mrg, tmp_dir,
                   combine_calls>>

----------------------------------------------------------------------------
(* merge_statistics and merge_statistics_ *)

\* Python's range(a, b, step), step > 0
Range(a, b, step) ==
    [i \in 1..(IF b <= a THEN 0 ELSE (b - a + step - 1) \div step) |-> a + (i - 1) * step]

\* Python's zip of two lists
Zip(r1, r2) == [i \in 1..Min(Len(r1), Len(r2)) |-> <<r1[i], r2[i]>>]

\* the slices with the range of the ends stopping at size
SliceEndsAtSize(size, n_elem) == Zip(Range(0, size, n_elem), Range(n_elem, size, n_elem))

\* the pairs (start, end) slice_max_n(size, n_elem) yields
slice_max_n(size, n_elem) == Zip(Range(0, size, n_elem), Range(n_elem, size + n_elem, n_elem))

\* the slice that runs to the end of the list whatever its end index is
SliceToEnd(s, start, end) == SubSeq(s, start + 1, Len(s))

\* Python's s[start:end], 0 <= start
Slice(s, start, end) == SubSeq(s, start + 1, Min(end, Len(s)))

NoMrg == [file_stack |-> <<>>, new_stack |-> <<>>, file_cnter |-> 0, slices |-> <<>>,
          level |-> 0, final_stat |-> None]

\* what one run of "hercules combine" can do: exit 0 with output or without a
\* byte of it, exit non-zero having written nothing or a part, not start at all;
\* or the output file cannot be opened
CombineOutcomes == {"ok", "ok_empty", "failed", "failed_partial", "oserror", "open_error"}

\* cmd = [hercules_exec, "combine"] + locations
CombineCmd(locations) == [exec |-> HERCULES_EXEC, mode |-> "combine", locations |-> locations]

\* merge_statistics_(filenames, output_filename): the files afterwards, the
\* value returned and whether an exception left the function instead
merge_statistics_(f, filenames, out, o) ==
    LET opened == OpenWb(f, out)
        piece(kind) == [src |-> CombineCmd(filenames), kind |-> kind]
    IN  CASE o = "open_error"     -> [fs |-> f, ret |-> None, raised |-> TRUE]
          [] o = "oserror"        -> [fs |-> opened, ret |-> None, raised |-> TRUE]
          [] o = "ok"             -> [fs |-> WriteOut(opened, out, piece("full")),
                                      ret |-> out, raised |-> FALSE]
          [] o = "ok_empty"       -> [fs |-> opened, ret |-> out, raised |-> FALSE]
          [] o = "failed_partial" -> [fs |-> WriteOut(opened, out, piece("partial")),
                                      ret |-> None, raised |-> FALSE]
          [] OTHER                -> [fs |-> opened, ret |-> None, raised |-> FALSE]

\* the entry of the log for one combine invocation
CombineCall(filenames, out, o) == [locations |-> filenames, out |-> out, res |-> o]

\* reader.read(loc); reader.get_header()
HeaderOf(f, loc) == IF IsFile(f, loc) THEN ReadHeader(f[loc]) ELSE [ok |-> FALSE, start |-> 0]

\* the paths of the results that have one, last result first
LocationsReversed(res) ==
    LET locs == SelectSeq([i \in 1..Len(res) |-> res[i].path], LAMBDA loc : loc # None)
    IN  [i \in 1..Len(locs) |-> locs[Len(locs) + 1 - i]]

\* line 168: the paths of the results that have one
Locations(res) == SelectSeq([i \in 1..Len(res) |-> res[i].path], LAMBDA loc : loc # None)

\* lines 170-175: the locations whose statistics do not start at 1970-01-01
FilteredLocations(f, locations) ==
    SelectSeq(locations, LAMBDA loc : ~starts_with_zero_timestamp(HeaderOf(f, loc).start))

\* line 192: the outputs of the level that exist and are not empty
Survivors(f, new_stack) == SelectSeq(new_stack, LAMBDA loc : loc # None /\ GetSize(f, loc) > 0)

\* lines 167-182: filtering of the results, choice of the mode
MergeFilter ==
    /\ hpc = "merge"
    /\ LET locations == Locations(results)
       IN  IF \E i \in 1..Len(locations) : ~HeaderOf(fs, locations[i]).ok
           THEN /\ hpc' = "raised_reader"
                /\ UNCHANGED <<mrg, tmp_dir>>
           ELSE /\ mrg' = [NoMrg EXCEPT !.file_stack = FilteredLocations(fs, locations)]
                /\ hpc' = IF n_samples > 0 THEN "while" ELSE "flat"
                /\ tmp_dir' = IF n_samples > 0 THEN "exists" ELSE tmp_dir
    /\ UNCHANGED <<arguments, n_samples, fs, next_task, worker, outqueue, results,
                   combine_calls>>

\* the while test taken as len(file_stack) >= n_samples
LevelStartAtSize ==
    /\ hpc = "while"
    /\ Len(mrg.file_stack) >= n_samples
    /\ mrg' = [mrg EXCEPT !.slices = slice_max_n(Len(mrg.file_stack), n_samples)]
    /\ hpc' = "for"
    /\ UNCHANGED <<arguments, n_samples, fs, next_task, worker, outqueue, results,
                   tmp_dir, combine_calls>>

\* lines 183-184: the while test holds, the for loop over the slices starts
LevelStart ==
    /\ hpc = "while"
    /\ Len(mrg.file_stack) > n_samples
    /\ mrg' = [mrg EXCEPT !.slices = slice_max_n(Len(mrg.file_stack), n_samples)]
    /\ hpc' = "for"
    /\ UNCHANGED <<arguments, n_samples, fs, next_task, worker, outqueue, results,
                   tmp_dir, combine_calls>>

\* lines 185-191: one turn of the for loop, merging one slice into a new file
MergeBatch ==
    /\ hpc = "for"
    /\ mrg.slices # <<>>
    /\ mrg.file_cnter < MaxMerges
    /\ \E o \in CombineOutcomes :
         LET new_tmp_loc == TmpLoc(mrg.file_cnter)
             filenames == Slice(mrg.file_stack, Head(mrg.slices)[1], Head(mrg.slices)[2])
             r == merge_statistics_(fs, filenames, new_tmp_loc, o)
         IN  /\ combine_calls' = Append(combine_calls, CombineCall(filenames, new_tmp_loc, o))
             /\ IF r.raised
                THEN /\ fs' = RemoveTmp(r.fs)
                     /\ tmp_dir' = "removed"
                     /\ hpc' = "raised_combine"
                     /\ mrg' = mrg
                ELSE /\ fs' = r.fs
                     /\ tmp_dir' = tmp_dir
                     /\ hpc' = hpc
                     /\ mrg' = [mrg EXCEPT !.new_stack = Append(@, r.ret),
                                           !.file_cnter = @ + 1,
                                           !.slices = Tail(@)]
    /\ UNCHANGED <<arguments, n_samples, next_task, worker, outqueue, results>>

\* lines 192-193: the for loop is over
LevelEnd ==
    /\ hpc = "for"
    /\ mrg.slices = <<>>
    /\ mrg' = [mrg EXCEPT !.file_stack = Survivors(fs, mrg.new_stack),
                          !.new_stack = <<>>,
                          !.level = @ + 1]
    /\ hpc' = "while"
    /\ UNCHANGED <<arguments, n_samples, fs, next_task, worker, outqueue, results,
                   tmp_dir, combine_calls>>

\* lines 195-200: the last merge, into output_filepath; the temporary
\* directory, when there is one, is removed on the way out
FinalMerge ==
    /\ IF hpc = "while" THEN Len(mrg.file_stack) <= n_samples ELSE hpc = "flat"
    /\ \E o \in CombineOutcomes :
         LET r == merge_statistics_(fs, mrg.file_stack, ResultFilepath, o)
         IN  /\ combine_calls' = Append(combine_calls,
                                        CombineCall(mrg.file_stack, ResultFilepath, o))
             /\ fs' = IF tmp_dir = "exists" THEN RemoveTmp(r.fs) ELSE r.fs
             /\ tmp_dir' = IF tmp_dir = "exists" THEN "removed" ELSE tmp_dir
             /\ hpc' = IF r.raised THEN "raised_combine" ELSE "done"
             /\ mrg' = [mrg EXCEPT !.final_stat = r.ret]
    /\ UNCHANGED <<arguments, n_samples, next_task, worker, outqueue, results>>

----------------------------------------------------------------------------
(* Specifications *)

\* the kwargs of one row, lines 275-276
Kwargs(i, url, force, size_limit) ==
    [repo_loc |-> RepoLoc(i), repo_url |-> url, output_dir |-> "/output", force |-> force,
     hercules_exec |-> HERCULES_EXEC, size_limit |-> size_limit]

\* the CSV files of n rows: n of the urls, in the order of Urls
UrlLists(n) ==
    {[i \in 1..n |-> Urls[u[i]]] :
        u \in {v \in [1..n -> 1..Len(Urls)] : \A i, j \in 1..n : i < j => v[i] < v[j]}}

\* hercules_handler on a new output directory
Init ==
    /\ \E n \in 0..MaxItems : \E urls \in UrlLists(n) :
         \E force \in Forces, limit \in PoolLimits :
            arguments = [i \in 1..n |-> Kwargs(i, urls[i], force, limit)]
    /\ n_samples \in BatchSizes
    /\ fs = EmptyFs
    /\ next_task = 1
    /\ worker = [w \in Workers |-> IdleWorker]
    /\ outqueue = <<>>
    /\ results = <<>>
    /\ hpc = "pool"
    /\ mrg = NoMrg
    /\ tmp_dir = "none"
    /\ combine_calls = <<>>

WorkerStep(w) ==
    \/ Check(w)
    \/ OpenStat(w, 1)
    \/ RunPrimary(w)
    \/ OpenStat(w, 2)
    \/ RunFallback(w)

MergeStep ==
    \/ MergeFilter
    \/ LevelStart
    \/ MergeBatch
    \/ LevelEnd
    \/ FinalMerge

Next ==
    \/ \E w \in Workers : Dispatch(w) \/ WorkerStep(w) \/ Deliver(w)
    \/ Collect
    \/ PoolExit
    \/ MergeStep

Spec == Init /\ [][Next]_vars

\* repository_statistics called any number of times for one repository
ItemInit ==
    /\ arguments = <<Kwargs(1, Urls[1], FALSE, 0)>>
    /\ n_samples = -1
    /\ fs = EmptyFs
    /\ next_task = 1
    /\ worker = [w \in Workers |-> IdleWorker]
    /\ outqueue = <<>>
    /\ results = <<>>
    /\ hpc = "direct"
    /\ mrg = NoMrg
    /\ tmp_dir = "none"
    /\ combine_calls = <<>>

ItemNext == CallDirect \/ WorkerStep(1) \/ ReturnDirect

ItemSpec == ItemInit /\ [][ItemNext]_vars

\* the result of a repository whose statistics were calculated
GoodResult(i) ==
    [exc |-> "", repo_size |-> 2, err |-> "", repository |-> RepoLoc(i),
     path |-> StatLoc("/output", MergeUrl(i))]

\* the result of a repository both runs of which failed
FailedResult(i) ==
    [exc |-> "", repo_size |-> 2, err |-> "failed", repository |-> RepoLoc(i), path |-> None]

\* the statistics of the i-th repository, starting at time start
GoodFile(i, start) ==
    <<[src |-> PrimaryCmd(Kwargs(i, MergeUrl(i), TRUE, 0)), kind |-> "full", start |-> start]>>

\* merge_statistics called with the results of up to MaxFiles repositories, of
\* which the first may have failed and one may have statistics starting on
\* 1970-01-01
MergeInit ==
    /\ arguments = <<>>
    /\ n_samples \in MergeBatchSizes
    /\ \E v \in 0..MaxFiles : \E zero \in 0..v, nopath \in 0..Min(v, 1), s \in {0, SecondsPerDay - 1} :
         /\ results = [i \in 1..v |-> IF i = nopath THEN FailedResult(i) ELSE GoodResult(i)]
         /\ fs = [p \in {StatLoc("/output", MergeUrl(i)) : i \in (1..v) \ {nopath}} |->
                    LET i == CHOOSE j \in 1..v : StatLoc("/output", MergeUrl(j)) = p
                    IN  GoodFile(i, IF i = zero THEN s ELSE SecondsPerDay)]
    /\ next_task = 1
    /\ worker = Terminated
    /\ outqueue = <<>>
    /\ hpc = "merge"
    /\ mrg = NoMrg
    /\ tmp_dir = "none"
    /\ combine_calls = <<>>

MergeSpec == MergeInit /\ [][MergeStep]_vars

----------------------------------------------------------------------------
(* Properties *)

\* worker w is at the return statement of a call that returned a value
AtReturn(w) == worker[w].pc = "ret" /\ worker[w].ret.exc = ""

\* the measured size of the call of worker w exceeds a limit that is set
OverLimit(w) ==
    /\ worker[w].kw.size_limit > 0
    /\ worker[w].repo_size > worker[w].kw.size_limit

\* C1 as stated: whenever the measured size exceeds a limit > 0, the outcome
\* has no path and a non-empty error and the analysis command was not run,
\* whatever force is and whether or not statistics.pb exists already.
C1_Original ==
    \A w \in Workers :
        AtReturn(w) /\ OverLimit(w) =>
            /\ worker[w].ret.path = None
            /\ worker[w].ret.err # ""
            /\ worker[w].runs = <<>>

\* C1 amended: whenever the measured size exceeds a limit > 0, the analysis
\* command is not run; the outcome has no path and a non-empty error unless
\* force is false and statistics.pb exists at the destination, and then the
\* outcome is that path with an empty error.
C1_OverLimitNeverRuns ==
    \A w \in Workers :
        AtReturn(w) /\ OverLimit(w) =>
            /\ worker[w].runs = <<>>
            /\ IF ~worker[w].kw.force /\ IsFile(fs, stat_loc(w))
               THEN worker[w].ret.path = stat_loc(w) /\ worker[w].ret.err = ""
               ELSE worker[w].ret.path = None /\ worker[w].ret.err # ""

\* a repository over the limit is rejected although its statistics exist,
\* force being set
C1_Witness ==
    \E w \in Workers :
        /\ AtReturn(w) /\ OverLimit(w)
        /\ worker[w].kw.force /\ IsFile(fs, stat_loc(w))
        /\ worker[w].ret.path = None /\ worker[w].ret.err # ""

\* C2: a call with force false that finds statistics.pb at its destination
\* runs the command zero times, leaves the files as they are and returns that
\* path with an empty error; a call with force false that follows a call
\* which returned the path returns the same path, again without a run.
C2_ReuseIdempotent ==
    [][ /\ ( /\ worker[1].pc = "check"
             /\ ~worker[1].kw.force
             /\ IsFile(fs, stat_loc(1))
             /\ worker'[1] # worker[1] )
          => /\ fs' = fs
             /\ worker'[1].pc = "ret"
             /\ worker'[1].runs = <<>>
             /\ worker'[1].ret.exc = "" =>
                    /\ worker'[1].ret.path = stat_loc(1)
                    /\ worker'[1].ret.err = ""
        /\ ( /\ AtReturn(1)
             /\ ~worker[1].kw.force
             /\ results # <<>>
             /\ results[1].path # None )
          => /\ worker[1].runs = <<>>
             /\ worker[1].ret.path = results[1].path
             /\ worker[1].ret.err = ""
      ]_vars

\* a second call in a row returns the path of the existing statistics
C2_Witness ==
    /\ AtReturn(1)
    /\ ~worker[1].kw.force
    /\ worker[1].runs = <<>>
    /\ worker[1].ret.path = stat_loc(1)
    /\ results # <<>>
    /\ results[1].path = worker[1].ret.path
    /\ results[1].err = ""

\* the outcomes of a call: statistics calculated, or both runs failed
Done(w) ==
    worker[w].ret.exc = "" /\ worker[w].ret.path = stat_loc(w) /\ worker[w].ret.err = ""

Failed(w) ==
    worker[w].ret.exc = "" /\ worker[w].ret.path = None /\ worker[w].ret.err # ""

\* C3: the primary run comes first; the fallback run follows if and only if
\* the primary run failed, once, with the primary arguments and
\* "--first-parent" appended; Failed is the outcome only after the fallback
\* failed too, Done the outcome of a run that succeeded; never more than two
\* runs for one repository.
C3_FallbackProtocol ==
    \A w \in Workers :
        LET r == worker[w].runs
            n == Len(r)
        IN  /\ n <= 2
            /\ n >= 1 => r[1].cmd = PrimaryCmd(worker[w].kw)
            /\ n = 2 => r[1].res # "ok" /\ r[2].cmd = Append(r[1].cmd, "--first-parent")
            /\ (worker[w].pc = "ret" /\ n >= 1) =>
                    /\ r[1].res # "ok" => n = 2
                    /\ IF r[n].res = "ok" THEN Done(w) ELSE Failed(w)

\* C3 for the failures the code handles (a non-zero exit status), in the calls
\* that return a value: this much of the protocol holds.
C3_ProtocolOfReturningCalls ==
    \A w \in Workers :
        LET r == worker[w].runs
            n == Len(r)
        IN  /\ n <= 2
            /\ n >= 1 => r[1].cmd = PrimaryCmd(worker[w].kw)
            /\ n = 2 => /\ r[1].res \in {"failed", "failed_partial"}
                        /\ r[2].cmd = Append(r[1].cmd, "--first-parent")
            /\ (AtReturn(w) /\ n >= 1) =>
                    /\ r[1].res # "ok" => n = 2
                    /\ IF r[n].res = "ok" THEN Done(w) ELSE Failed(w)

\* C4: whatever way a run of the analysis command fails, the call ends with
\* an outcome record (Done or Failed): no exception leaves
\* repository_statistics once it has built the command.
C4_FailuresEndInOutcome ==
    \A w \in Workers :
        (worker[w].pc = "ret" /\ worker[w].cmd # <<>>) => (Done(w) \/ Failed(w))

\* C5: hercules_handler leaves the pool only with one outcome for every row,
\* whatever happened to the single rows.
C5_Bulkhead == hpc # "pool" => Len(results) = Len(arguments)

\* the paths the k-th combine invocation was the last to write
LastWriter(k) ==
    \A j \in (k + 1)..Len(combine_calls) : combine_calls[j].out # combine_calls[k].out

\* C6: after a failed run of the external command, analysis or combine, the
\* output file of that run is absent or empty.
C6_NoPartialOutput ==
    /\ \A w \in Workers :
          ( /\ worker[w].pc \in {"open2", "ret"}
            /\ worker[w].runs # <<>>
            /\ worker[w].runs[Len(worker[w].runs)].res # "ok" )
          => (IsFile(fs, stat_loc(w)) => GetSize(fs, stat_loc(w)) = 0)
    /\ \A k \in 1..Len(combine_calls) :
          ( /\ combine_calls[k].res \in {"failed", "failed_partial", "oserror"}
            /\ LastWriter(k) )
          => (IsFile(fs, combine_calls[k].out) => GetSize(fs, combine_calls[k].out) = 0)

\* the statistics at loc can be read and start on 1970-01-01
StartsOnEpochDay(loc) ==
    /\ loc.name = "statistics.pb"
    /\ IsFile(fs, loc)
    /\ ReadHeader(fs[loc]).ok
    /\ ReadHeader(fs[loc]).start >= 0
    /\ ReadHeader(fs[loc]).start < SecondsPerDay

\* C7: no combine invocation, at any level, has among its arguments the
\* statistics of a repository that start on 1970-01-01, or the missing path
\* of an outcome without statistics; the statistics of repositories it has
\* are paths of the results.
C7_CorruptNeverCombined ==
    \A k \in 1..Len(combine_calls) :
        \A j \in 1..Len(combine_calls[k].locations) :
            LET loc == combine_calls[k].locations[j]
            IN  /\ loc # None
                /\ ~StartsOnEpochDay(loc)
                /\ loc.name = "statistics.pb" =>
                        \E i \in 1..Len(results) : results[i].path = loc

\* a reduction of two levels has ended although one of the results had
\* statistics starting at 23:59:59 of 1970-01-01 and another had no path
C7_Witness ==
    /\ hpc = "done"
    /\ mrg.level >= 1
    /\ \E i \in 1..Len(results) : results[i].path = None
    /\ \E i \in 1..Len(results) :
          /\ results[i].path # None
          /\ StartsOnEpochDay(results[i].path)
          /\ ReadHeader(fs[results[i].path]).start = SecondsPerDay - 1
    /\ \E k \in 1..Len(combine_calls) : Len(combine_calls[k].locations) >= 2

\* C8: statistics that cannot be read or parsed count as invalid: the merge
\* goes on without them and no exception leaves the filtering.
C8_ValidatorFailsClosed == hpc # "raised_reader"

\* C9: the while loop of merge_statistics ends: every pass leaves fewer files
\* in file_stack than it found.
C9_EveryLevelShrinks ==
    [][ (hpc = "for" /\ hpc' = "while") => Len(mrg'.file_stack) < Len(mrg.file_stack) ]_vars

\* C9 for batch sizes from 2 on: there every pass leaves fewer files.
C9_LevelsShrinkFromTwo ==
    [][ (n_samples >= 2 /\ hpc = "for" /\ hpc' = "while") =>
            Len(mrg'.file_stack) < Len(mrg.file_stack) ]_vars

\* the valid statistics merge_statistics starts from
ValidLocations == FilteredLocations(fs, Locations(results))

\* the number of slices of v files, n_elem at a time
NumSlices(v, n_elem) == (v + n_elem - 1) \div n_elem

\* the combine invocations of the first level made so far
FirstLevelCalls ==
    SubSeq(combine_calls, 1, Min(Len(combine_calls), NumSlices(Len(ValidLocations), n_samples)))

\* C10: with V valid statistics and batch size B, V > B > 0, the k-th combine
\* invocation of the first level merges the k-th slice of B consecutive valid
\* statistics (the last slice holds what is left, at least one), the first
\* level makes ceil(V / B) invocations when it runs to its end, and so every
\* valid statistics file is in exactly one of them; 7 files, 3 at a time, are
\* merged in 3 invocations of 3, 3 and 1 files, and one last invocation.
C10_FirstLevelPartition ==
    (hpc \in {"for", "while", "done"} /\ n_samples > 0 /\ Len(ValidLocations) > n_samples) =>
        LET V == Len(ValidLocations)
            B == n_samples
            calls == FirstLevelCalls
        IN  /\ \A k \in 1..Len(calls) :
                  /\ calls[k].locations = SubSeq(ValidLocations, (k - 1) * B + 1, Min(k * B, V))
                  /\ Len(calls[k].locations) \in 1..B
                  /\ k < NumSlices(V, B) => Len(calls[k].locations) = B
                  /\ calls[k].out = TmpLoc(k - 1)
            /\ (hpc = "for" /\ mrg.level = 0) =>
                  Len(combine_calls) + Len(mrg.slices) = NumSlices(V, B)
            /\ mrg.level >= 1 =>
                  /\ Len(calls) = NumSlices(V, B)
                  /\ \A i \in 1..V :
                        Cardinality({k \in 1..Len(calls) :
                            \E j \in 1..Len(calls[k].locations) :
                                calls[k].locations[j] = ValidLocations[i]}) = 1
            /\ (hpc = "done" /\ V = 7 /\ B = 3) =>
                  /\ Len(combine_calls) = 4
                  /\ [k \in 1..3 |-> Len(combine_calls[k].locations)] = <<3, 3, 1>>
                  /\ combine_calls[4].out = ResultFilepath

\* seven valid statistics, three at a time: the reduction has ended
C10_Witness ==
    /\ hpc = "done"
    /\ n_samples = 3
    /\ Len(ValidLocations) = 7
    /\ Len(combine_calls) = 4
    /\ mrg.final_stat = ResultFilepath

\* C11: when no valid statistics are left at the entry of merge_statistics (no
\* result has a path, or all are filtered out), the combine command is run
\* zero times, whatever the batch size.
C11_EmptyInputNoCombine == ValidLocations = <<>> => combine_calls = <<>>

\* C12: when every merge of a level has failed (no file survives the level),
\* no combine invocation with the final output path is made and no file
\* exists at that path.
C12_AllBatchesFailedStops ==
    (n_samples > 0 /\ mrg.level >= 1 /\ mrg.file_stack = <<>>) =>
        /\ \A k \in 1..Len(combine_calls) : combine_calls[k].out # ResultFilepath
        /\ ~IsFile(fs, ResultFilepath)

\* the combine invocations of the level in progress
LevelCalls ==
    SubSeq(combine_calls, Len(combine_calls) - Len(mrg.new_stack) + 1, Len(combine_calls))

\* the outputs of the invocations that exited with 0 and wrote their output,
\* in the order of the invocations
OkOuts(calls) ==
    LET ok == SelectSeq(calls, LAMBDA c : c.res = "ok")
    IN  [i \in 1..Len(ok) |-> ok[i].out]

\* the combine invocation a step makes
NewCall == combine_calls'[Len(combine_calls')]

\* C13: a merge of a level that fails, or writes no byte, while another merge
\* of the level has succeeded, costs only its own output: the reduction goes
\* on, the next level works on the outputs that survived, in the order of the
\* batches, and the last combine gets surviving outputs only.
C13_PartialFailureContained ==
    [][ /\ (hpc = "for" /\ OkOuts(LevelCalls) # <<>>) => hpc' \in {"for", "while"}
        /\ (hpc = "for" /\ hpc' = "while" /\ OkOuts(LevelCalls) # <<>>) =>
                mrg'.file_stack = OkOuts(LevelCalls)
        /\ (hpc = "while" /\ hpc' \notin {"while", "for"} /\ mrg.level >= 1) =>
                /\ NewCall.locations = mrg.file_stack
                /\ \A i \in 1..Len(mrg.file_stack) :
                      \E k \in 1..Len(combine_calls) :
                          /\ combine_calls[k].res = "ok"
                          /\ combine_calls[k].out = mrg.file_stack[i]
      ]_vars

\* C13 for the failures the code handles, a non-zero exit status or an output
\* of no bytes: these are contained as C13 says.
C13_ExitStatusFailuresContained ==
    [][ /\ ( /\ hpc = "for"
             /\ OkOuts(LevelCalls) # <<>>
             /\ combine_calls' # combine_calls
             /\ NewCall.res \in {"ok", "ok_empty", "failed", "failed_partial"} )
           => hpc' \in {"for", "while"}
        /\ (hpc = "for" /\ hpc' = "while" /\ OkOuts(LevelCalls) # <<>>) =>
                mrg'.file_stack = OkOuts(LevelCalls)
        /\ (hpc = "while" /\ hpc' \notin {"while", "for"} /\ mrg.level >= 1) =>
                /\ NewCall.locations = mrg.file_stack
                /\ \A i \in 1..Len(mrg.file_stack) :
                      \E k \in 1..Len(combine_calls) :
                          /\ combine_calls[k].res = "ok"
                          /\ combine_calls[k].out = mrg.file_stack[i]
      ]_vars

\* C14: in hierarchical mode every intermediate file is written in the
\* temporary directory of the run and nowhere else; the directory exists, with
\* the surviving intermediate files in it, as long as levels are merged and
\* when the last combine starts; once merge_statistics has returned or an
\* exception has left it, the directory and its files are gone, while the file
\* the last combine opened at the final output path is still there.
C14_GuaranteedCleanup ==
    n_samples > 0 =>
        /\ \A k \in 1..Len(combine_calls) :
              combine_calls[k].out # ResultFilepath => combine_calls[k].out.base = "tmp"
        /\ \A p \in DOMAIN fs :
              p.base = "tmp" =>
                  /\ tmp_dir = "exists"
                  /\ \E k \in 1..Len(combine_calls) : combine_calls[k].out = p
        /\ hpc \in {"while", "for"} =>
              /\ tmp_dir = "exists"
              /\ \A i \in 1..Len(mrg.file_stack) :
                    mrg.file_stack[i].base = "tmp" =>
                        /\ IsFile(fs, mrg.file_stack[i])
                        /\ GetSize(fs, mrg.file_stack[i]) > 0
        /\ hpc \in {"done", "raised_combine"} =>
              /\ tmp_dir = "removed"
              /\ \A p \in DOMAIN fs : p.base # "tmp"
              /\ \A k \in 1..Len(combine_calls) :
                    (combine_calls[k].out = ResultFilepath /\ combine_calls[k].res # "open_error")
                        => IsFile(fs, ResultFilepath)
              /\ mrg.final_stat # None =>
                    /\ mrg.final_stat = ResultFilepath
                    /\ IsFile(fs, ResultFilepath)

\* a reduction of two levels at least has returned the final path: its
\* intermediate files were written and are gone, the final file is there
C14_Witness ==
    /\ hpc = "done"
    /\ n_samples > 0
    /\ mrg.level >= 2
    /\ tmp_dir = "removed"
    /\ \E k \in 1..Len(combine_calls) :
          combine_calls[k].out.base = "tmp" /\ combine_calls[k].res = "ok"
    /\ mrg.final_stat = ResultFilepath
    /\ GetSize(fs, ResultFilepath) > 0

\* worker w has statistics.pb open for writing
Writing(w) == worker[w].pc \in {"run1", "run2"}

\* C15: two workers processing rows of different repo_url never have the same
\* statistics.pb open for writing: the destinations of different urls differ.
C15_NoWriteCollision ==
    \A w1, w2 \in Workers :
        ( /\ w1 # w2
          /\ Writing(w1) /\ Writing(w2)
          /\ worker[w1].kw.repo_url # worker[w2].kw.repo_url )
        => stat_loc(w1) # stat_loc(w2)

\* C16: a path at which something was written is never opened for writing
\* again: as long as the file exists its content stays what it is.
C16_WriteOnce ==
    [][ \A p \in DOMAIN fs :
            (GetSize(fs, p) > 0 /\ IsFile(fs', p)) => fs'[p] = fs[p] ]_vars

\* C16 for the intermediate files of a merge: each is written by one combine
\* invocation and by no other.
C16_IntermediatesWriteOnce ==
    \A j, k \in 1..Len(combine_calls) :
        (j # k /\ combine_calls[j].out.base = "tmp") =>
            combine_calls[j].out # combine_calls[k].out

\* the argument lists of a list of combine invocations, one after the other
RECURSIVE Flatten(_)
Flatten(calls) ==
    IF calls = <<>> THEN <<>> ELSE Head(calls).locations \o Flatten(Tail(calls))

\* C17: with a batch size B > 0 every combine invocation, of a level or the
\* last one, gets B paths at most; the invocations of a level take the files
\* of its working list in order, each file going to one invocation and no
\* other, all of them once the level is through; every invocation writes one
\* output path, its own; the last invocation takes the whole last list.
C17_BatchCapacity ==
    n_samples > 0 =>
        /\ \A k \in 1..Len(combine_calls) :
              Len(combine_calls[k].locations) <= n_samples
        /\ \A j, k \in 1..Len(combine_calls) :
              j # k => combine_calls[j].out # combine_calls[k].out
        /\ hpc = "for" =>
              /\ Flatten(LevelCalls) = SubSeq(mrg.file_stack, 1, Len(Flatten(LevelCalls)))
              /\ mrg.slices = <<>> => Flatten(LevelCalls) = mrg.file_stack
              /\ \A i \in 1..Len(mrg.file_stack) :
                    LET users == {k \in 1..Len(LevelCalls) :
                                    \E j \in 1..Len(LevelCalls[k].locations) :
                                        LevelCalls[k].locations[j] = mrg.file_stack[i]}
                    IN  /\ Cardinality(users) <= 1
                        /\ mrg.slices = <<>> => Cardinality(users) = 1
        /\ hpc = "done" =>
              /\ combine_calls[Len(combine_calls)].out = ResultFilepath
              /\ combine_calls[Len(combine_calls)].locations = mrg.file_stack

\* five valid statistics, two at a time: three merges, then two, then the last
C17_Witness ==
    /\ hpc = "done"
    /\ n_samples = 2
    /\ Len(ValidLocations) = 5
    /\ [k \in 1..Len(combine_calls) |-> Len(combine_calls[k].locations)] = <<2, 2, 1, 2, 1, 2>>
    /\ mrg.final_stat = ResultFilepath

\* C18: a call that does not reuse existing statistics (force is set, or
\* there is no statistics.pb) and whose arguments are accepted goes on to the
\* primary run if and only if size_limit <= 0 or repo_size <= size_limit; so
\* for a limit > 0, when a size is admitted every smaller size is admitted.
C18_AdmissionDecision ==
    [][ /\ ( /\ worker[1].pc = "check"
             /\ worker'[1] # worker[1]
             /\ worker[1].kw.force \/ ~IsFile(fs, stat_loc(1))
             /\ worker'[1].ret.exc # "ValueError" )
           => ( worker'[1].pc = "open1"
                  <=> ( \/ worker[1].kw.size_limit <= 0
                        \/ worker'[1].repo_size <= worker[1].kw.size_limit ) )
        /\ \A s1, s2 \in Sizes, limit \in Limits :
              (s1 <= s2 /\ limit > 0 /\ ~TooBig(s2, limit)) => ~TooBig(s1, limit)
      ]_vars

\* a repository exactly as big as the limit is admitted, force being set and
\* statistics existing already
C18_Witness ==
    /\ worker[1].pc = "open1"
    /\ worker[1].kw.size_limit = 2
    /\ worker[1].repo_size = 2
    /\ worker[1].kw.force
    /\ IsFile(fs, stat_loc(1))

\* C19: the outcome of a call that ran the analysis command at least once has
\* either a path or a non-empty error, never both and never neither.
C19_OutcomeExclusive ==
    \A w \in Workers :
        (AtReturn(w) /\ worker[w].runs # <<>>) =>
            (worker[w].ret.path # None) # (worker[w].ret.err # "")

\* both runs have failed and the outcome has an error and no path
C19_Witness ==
    \E w \in Workers :
        /\ AtReturn(w)
        /\ Len(worker[w].runs) = 2
        /\ worker[w].ret.path = None
        /\ worker[w].ret.err # ""

\* the paths of a list of results in the order of the list, without the
\* results that have none
RECURSIVE PathsOf(_)
PathsOf(res) ==
    IF res = <<>> THEN <<>>
    ELSE (IF Head(res).path = None THEN <<>> ELSE <<Head(res).path>>) \o PathsOf(Tail(res))

\* merging has not begun while rows are processed or collected; when it
\* begins there is one collected outcome for every row and no worker is left;
\* what is merged first are the paths of the results, in their order, that
\* the check of the start time lets pass
ReduceAfterMap ==
    /\ hpc \in {"pool", "raised_task"} =>
          combine_calls = <<>> /\ mrg = NoMrg /\ tmp_dir = "none"
    /\ hpc \notin {"pool", "raised_task"} =>
          /\ Len(results) = Len(arguments)
          /\ outqueue = <<>>
          /\ next_task = Len(arguments) + 1
          /\ \A w \in Workers : worker[w].pc = "killed"
          /\ \A i \in 1..Len(arguments) :
                Cardinality({j \in 1..Len(results) :
                                results[j].repository = arguments[i].repo_loc}) = 1
    /\ hpc = "raised_reader" =>
          \E i \in 1..Len(results) :
              results[i].path # None /\ ~HeaderOf(fs, results[i].path).ok
    /\ (hpc \in {"while", "flat"} /\ mrg.level = 0) =>
          mrg.file_stack = SelectSeq(PathsOf(results), LAMBDA loc : ~StartsOnEpochDay(loc))

\* C20: in hercules_handler no check of statistics and no combine invocation
\* happens before every row has its outcome and the outcome is collected; the
\* results are collected in the order the pool yields them and the reducer
\* starts from the paths of the results that have one, in that order.
C20_MapThenReduce ==
    [][ /\ ReduceAfterMap'
        /\ results' # results =>
              /\ hpc = "pool"
              /\ outqueue # <<>>
              /\ results' = Append(results, Head(outqueue))
      ]_vars

\* the second row was yielded first, both rows have statistics and the one
\* combine invocation got them in the order they were yielded
C20_Witness ==
    /\ hpc = "done"
    /\ Len(results) = 2
    /\ results[1].repository = RepoLoc(2)
    /\ results[1].path # None /\ results[2].path # None
    /\ results[1].path # results[2].path
    /\ Len(combine_calls) = 1
    /\ combine_calls[1].locations = <<results[1].path, results[2].path>>

\* the paths of the results whose statistics do not start on 1970-01-01, in
\* the order of the results
ValidPaths == SelectSeq(PathsOf(results), LAMBDA loc : ~StartsOnEpochDay(loc))

\* the batch size is <= 0, or no smaller than the number of valid statistics
SingleLevel == n_samples <= 0 \/ Len(ValidPaths) <= n_samples

\* C21: with a batch size <= 0, or with no more valid statistics than the
\* batch size, merge_statistics makes one combine invocation and no other: its
\* arguments are all the valid statistics in the order of the input, its
\* output is the final output path, and no intermediate file is written.
C21_SingleLevel ==
    SingleLevel =>
        /\ \A p \in DOMAIN fs : p.base # "tmp"
        /\ mrg.level = 0 /\ mrg.file_cnter = 0
        /\ hpc \in {"merge", "while", "flat"} => combine_calls = <<>>
        /\ hpc \in {"done", "raised_combine"} =>
              /\ Len(combine_calls) = 1
              /\ combine_calls[1].locations = ValidPaths
              /\ combine_calls[1].out = ResultFilepath
        /\ hpc # "for"

\* three valid statistics among five results, batch size three: one combine
\* invocation has merged the three into the final file
C21_Witness ==
    /\ hpc = "done"
    /\ n_samples = 3
    /\ Len(results) = 5
    /\ Len(ValidPaths) = 3
    /\ Len(combine_calls) = 1
    /\ combine_calls[1].res = "ok"
    /\ mrg.final_stat = ResultFilepath

\* the file at loc is the complete output of one run that exited with 0
WrittenBySuccess(loc) ==
    /\ IsFile(fs, loc)
    /\ GetSize(fs, loc) = 1
    /\ fs[loc][1].kind = "full"

\* C22: over any sequence of calls for a repository on one output directory,
\* with any force, a path that repository_statistics returns is the path of a
\* file written by a run of the analysis command that succeeded; a repository
\* that failed is not returned as reused statistics by a later call.
C22_ReturnedPathsAreGood ==
    \A w \in Workers :
        (AtReturn(w) /\ worker[w].ret.path # None) => WrittenBySuccess(worker[w].ret.path)

\* every combine invocation made so far exited with 0 and wrote its output
AllOk == \A k \in 1..Len(combine_calls) : combine_calls[k].res = "ok"

\* the statistics of repositories that went into the files locs, through the
\* combine invocations that wrote the intermediate ones among them
RECURSIVE Leaves(_)
Leaves(locs) ==
    IF locs = <<>> THEN <<>>
    ELSE LET h == Head(locs)
             k == CHOOSE j \in 1..Len(combine_calls) : combine_calls[j].out = h
         IN  (IF h.base = "tmp" THEN Leaves(combine_calls[k].locations) ELSE <<h>>)
                 \o Leaves(Tail(locs))

\* in a hierarchical merge without a failed or empty merge: no file name is
\* used twice; the merges of a level take its working list piece by piece;
\* the working list, and then the last combine, holds every valid statistics
\* file once, through one chain of merges
Conservation ==
    (n_samples > 0 /\ AllOk) =>
        /\ \A j, k \in 1..Len(combine_calls) :
              j # k => combine_calls[j].out # combine_calls[k].out
        /\ hpc = "for" =>
              /\ Flatten(LevelCalls) = SubSeq(mrg.file_stack, 1, Len(Flatten(LevelCalls)))
              /\ mrg.slices = <<>> => Flatten(LevelCalls) = mrg.file_stack
              /\ \A k \in 1..Len(LevelCalls) : LevelCalls[k].locations # <<>>
        /\ hpc \in {"while", "for"} => Leaves(mrg.file_stack) = ValidPaths
        /\ hpc = "done" =>
              Leaves(combine_calls[Len(combine_calls)].locations) = ValidPaths

\* C23: in hierarchical mode, when no merge fails or writes an empty output,
\* the batches of every level partition its working list, the next working
\* list is the outputs of the batches, one for each in their order, no
\* intermediate file name is used twice, and so every valid statistics file
\* goes into the final aggregate through one chain of combine invocations.
C23_Conservation ==
    [][ /\ Conservation'
        /\ (n_samples > 0 /\ AllOk /\ hpc = "for" /\ hpc' = "while") =>
              /\ Len(LevelCalls) = NumSlices(Len(mrg.file_stack), n_samples)
              /\ mrg'.file_stack = [k \in 1..Len(LevelCalls) |-> LevelCalls[k].out]
      ]_vars

\* five valid statistics, two at a time, every merge succeeding: two levels
\* and the last combine have put all five into the aggregate
C23_Witness ==
    /\ hpc = "done"
    /\ n_samples = 2
    /\ AllOk
    /\ mrg.level = 2
    /\ Len(ValidPaths) = 5
    /\ Len(combine_calls) = 6
    /\ Leaves(combine_calls[6].locations) = ValidPaths

\* C24: when the primary run has failed and the fallback run succeeded, the
\* file at the destination is the output of the fallback run and nothing
\* else: what the primary run wrote is gone, and the outcome is that path
\* with an empty error.
C24_FallbackOutputOnly ==
    \A w \in Workers :
        ( /\ AtReturn(w)
          /\ Len(worker[w].runs) = 2
          /\ worker[w].runs[2].res = "ok" )
        => /\ Done(w)
           /\ IsFile(fs, stat_loc(w))
           /\ GetSize(fs, stat_loc(w)) = 1
           /\ fs[stat_loc(w)][1].kind = "full"
           /\ fs[stat_loc(w)][1].src = FallbackCmd(PrimaryCmd(worker[w].kw))

\* the primary run wrote a part of its output and failed, the fallback run
\* succeeded
C24_Witness ==
    /\ AtReturn(1)
    /\ Len(worker[1].runs) = 2
    /\ worker[1].runs[1].res = "failed_partial"
    /\ worker[1].runs[2].res = "ok"
    /\ worker[1].ret.path = stat_loc(1)

\* C24 in a pool: whatever other workers do, nothing the failed primary run
\* of a call wrote is in the file when the call returns after a fallback run
\* that succeeded.
C24_NoPrimaryBytesRemain ==
    \A w \in Workers :
        ( /\ AtReturn(w)
          /\ Len(worker[w].runs) = 2
          /\ worker[w].runs[2].res = "ok"
          /\ IsFile(fs, stat_loc(w)) )
        => \A i \in 1..GetSize(fs, stat_loc(w)) :
              fs[stat_loc(w)][i].src # worker[w].runs[1].cmd

====
